---- MODULE Spec2Model ----
(***************************************************************************)
(* Version derivation of universi/routing.py: a router is declared, routes *)
(* may be marked with only_exists_in_older_versions, and                   *)
(* generate_all_router_versions replays the version ledger, newest version *)
(* first, over deep copies of the route table.                             *)
(*                                                                         *)
(* Python objects are modelled as a heap: a route object is an index of    *)
(* `heap`, a router object is an index of `router_routes` (its .routes     *)
(* list, a sequence of route objects).  Functions are immutable values; a  *)
(* wrapper made around a function is the function with one more layer.     *)
(*                                                                         *)
(* Spec derives the versions of routers of parameterless handlers under    *)
(* every kind of instruction and every latest schema module; AnnotationSpec *)
(* derives those of routers whose handlers and dependencies have typed     *)
(* signatures, with a valid latest schema package.                         *)
(***************************************************************************)
EXTENDS Integers, Sequences, FiniteSets, TLC

\* Bounds of the model: the routes of the user's router, the versions of the
\* ledger, and the instructions of the whole ledger.
MaxRoutes == 2
MaxVersions == 4
MaxLedger == 2

_DELETED_ROUTE_TAG == "_UNIVERSI_DELETED_ROUTE"
Sentinel == "Sentinel"
None == "None"

\* ------------------------------------------------------------- input sets
Paths == {"/a", "/b"}

\* Handlers the user declares: "h" is a plain function, the others are
\* coroutine functions.
SyncFuncs == {"h"}


\* endpoint(path, methods, func_name=...) identities the ledger may name.
InstrEndpoints ==
    [endpoint_path : Paths, endpoint_methods : {{"GET"}, {"GET", "POST"}},
     endpoint_func_name : {None, "g"}]

\* EndpointHadInstruction.attributes: Sentinel marks an attribute that the
\* instruction does not declare.
HadAttributes ==
    { [path |-> Sentinel, deprecated |-> "True"],
      [path |-> "/b", deprecated |-> "True"] }

\* ---------------------------------------------------------------- helpers
Range(s) == { s[i] : i \in DOMAIN s }

RECURSIVE RemoveFirst(_, _)
\* list.remove(x): drops the first element equal to x.
RemoveFirst(s, x) ==
    IF s = << >> THEN << >>
    ELSE IF Head(s) = x THEN Tail(s)
    ELSE << Head(s) >> \o RemoveFirst(Tail(s), x)

\* inspect.Signature.empty, Python's None and typing.Any as annotation values.
\* Every annotation value is a record with a `kind`.
Empty == [kind |-> "empty"]
NoneValue == [kind |-> "None"]
AnyType == [kind |-> "Any"]

\* A function object: its __name__, the wrappers layered around it (innermost
\* first; functools.wraps keeps __name__ through every wrapper), and what
\* inspect.signature and __annotations__ show of it.
Callable(name, parameters, return_annotation) ==
    [kind |-> "callable", name |-> name, layers |-> << >>,
     parameters |-> parameters, return_annotation |-> return_annotation]
Function(name) == Callable(name, << >>, Empty)

\* inspect.Parameter(name, kind, default=..., annotation=...)
Parameter(name, kind, default, annotation) ==
    [name |-> name, kind |-> kind, default |-> default, annotation |-> annotation]

\* The latest schema package is directory 0; the directory of the i-th
\* version of the ledger (1 = newest) is i; a class that is defined in no
\* directory of the versioned packages is in directory Outside.
TemplateDir == 0
Outside == -1
\* max(version_dirs): the directory of the newest version.
latest_version_dir == 1

\* A class: its __name__, the directory of its source file and whether it is
\* a subclass of BaseModel or Enum.
Class(name, dir, is_schema) ==
    [kind |-> "class", name |-> name, dir |-> dir, is_schema |-> is_schema]
SchemaType(name, dir) == Class(name, dir, TRUE)

\* fastapi.params.Depends(dependency, use_cache=...)
Depends(dependency, use_cache) ==
    [kind |-> "Depends", dependency |-> dependency, use_cache |-> use_cache]

\* list[...] and the other parameterized generics; X | Y.
GenericAlias(origin, args) == [kind |-> "GenericAlias", origin |-> origin, args |-> args]
UnionType(args) == [kind |-> "UnionType", args |-> args]

\* What a route is declared with: @router.get(path, response_model=...,
\* dependencies=[...]) on an endpoint.
RouteDecl(path, methods, endpoint, response_model, dependencies) ==
    [path |-> path, methods |-> methods, endpoint |-> endpoint,
     response_model |-> response_model, dependencies |-> dependencies]

\* A route whose handler has no parameters, with a response model of the
\* latest package and one dependency.
PlainDecl(path, methods, func) ==
    RouteDecl(path, methods, Function(func), SchemaType("Response", TemplateDir),
              << Depends(Function("dependency"), TRUE) >>)

\* The route declarations a user router is built from.
RouteDecls ==
    { PlainDecl("/a", {"GET"}, "f"),
      PlainDecl("/a", {"GET"}, "g"),
      PlainDecl("/a", {"POST"}, "g"),
      PlainDecl("/b", {"GET"}, "h") }

\* latest_schemas_module: None, or a module with its dotted __name__ (as a list
\* of components) and whether it has a __path__.
Module(name, is_package) == [kind |-> "module", name |-> name, is_package |-> is_package]
LatestSchemasModules ==
    { NoneValue } \cup
    { Module(name, is_package) :
        name \in { << "schemas", "latest" >>, << "schemas", "v2000_01_01" >>, << "latest" >> },
        is_package \in BOOLEAN }

\* str.endswith(".latest") on a dotted name.
EndsWithDotLatest(name) == Len(name) >= 2 /\ name[Len(name)] = "latest"

\* get_old_endpoint() of an EndpointWasInstruction.
OldEndpoints == { Function("old"), Function("h") }

NoAttributes == [path |-> Sentinel, deprecated |-> Sentinel]

Instructions ==
    { [kind |-> k, endpoint_path |-> e.endpoint_path,
       endpoint_methods |-> e.endpoint_methods,
       endpoint_func_name |-> e.endpoint_func_name,
       attributes |-> NoAttributes, old_endpoint |-> NoneValue] :
         k \in {"didnt_exist", "existed"}, e \in InstrEndpoints }
    \cup
    { [kind |-> "had", endpoint_path |-> e.endpoint_path,
       endpoint_methods |-> e.endpoint_methods,
       endpoint_func_name |-> e.endpoint_func_name,
       attributes |-> a, old_endpoint |-> NoneValue] :
         e \in InstrEndpoints, a \in HadAttributes }
    \cup
    { [kind |-> "was", endpoint_path |-> e.endpoint_path,
       endpoint_methods |-> e.endpoint_methods,
       endpoint_func_name |-> e.endpoint_func_name,
       attributes |-> NoAttributes, old_endpoint |-> o] :
         e \in InstrEndpoints, o \in OldEndpoints }

\* starlette's is_async_callable / inspect.iscoroutinefunction: both
\* wrappers of this module are coroutine functions exactly when the
\* function they wrap is one.
is_async_callable(endpoint) == endpoint.name \notin SyncFuncs

\* versions.versioned(response_model, body_params=...)(endpoint)
versioned(endpoint) ==
    [endpoint EXCEPT !.layers = Append(@, [wrapper |-> "versioned", dir |-> TemplateDir])]

\* starlette.routing.Route.__eq__, used by `in` and list.remove.
RouteEq(a, b) ==
    /\ a.path = b.path
    /\ a.endpoint = b.endpoint
    /\ a.methods = b.methods

IsDeleted(route) == _DELETED_ROUTE_TAG \in Range(route.tags)

VARIABLES
    heap,                       \* route object -> its attributes
    router_routes,              \* router object -> its .routes list
    parent_router,              \* _EndpointTransformer.parent_router (0: none yet)
    annotation_transformer,     \* whether an _AnnotationTransformer was made
    annotation_cache,           \* its functools.cache: entries in the order they were stored
    routes_that_never_existed,  \* list of route objects
    router,                     \* transform's local `router`
    routers,                    \* transform's `routers`: version index -> router object
    versions,                   \* the part of the ledger read so far, newest version first
    pc,                         \* "declare", "version", "instruction", "done", "failed"
    error,                      \* which RouterGenerationError was raised
    parent_at_call              \* parent_router's routes and their attributes when transform began

vars == << heap, router_routes, parent_router, annotation_transformer, annotation_cache,
           routes_that_never_existed, router, routers, versions, pc, error,
           parent_at_call >>

\* The router the user declares is router object 1.
UserRouter == 1

Init ==
    /\ heap = << >>
    /\ router_routes = << << >> >>
    /\ parent_router = 0
    /\ annotation_transformer = FALSE
    /\ annotation_cache = << >>
    /\ routes_that_never_existed = << >>
    /\ router = 0
    /\ routers = << >>
    /\ versions = << >>
    /\ pc = "declare"
    /\ error = None
    /\ parent_at_call = << >>

transformVars == << parent_router, annotation_transformer, annotation_cache,
                    routes_that_never_existed, router, routers, versions, error,
                    parent_at_call >>

\* The APIRoute that APIRouter.add_api_route makes of a declaration.
APIRoute(decl) ==
    [path |-> decl.path, methods |-> decl.methods, endpoint |-> decl.endpoint,
     response_model |-> decl.response_model, dependencies |-> decl.dependencies,
     tags |-> << >>, deprecated |-> None]

\* @router.get(path) / @router.post(path) ... on a coroutine or plain function:
\* APIRouter.add_api_route appends a new APIRoute.
AddRoute(decl) ==
    /\ pc = "declare"
    /\ Len(router_routes[UserRouter]) < MaxRoutes
    /\ heap' = Append(heap, APIRoute(decl))
    /\ router_routes' = [router_routes EXCEPT ![UserRouter] = Append(@, Len(heap) + 1)]
    /\ UNCHANGED << transformVars, pc >>

\* _get_index_and_route_from_func: the first route whose endpoint is the function.
_get_index_and_route_from_func(h, routes, endpoint) ==
    LET found == { i \in DOMAIN routes : h[routes[i]].endpoint = endpoint }
    IN  IF found = {} THEN 0
        ELSE CHOOSE i \in found : \A j \in found : i <= j

\* Mutant of only_exists_in_older_versions: the marker is appended without
\* looking for it.
only_exists_in_older_versions_Unchecked(func) ==
    /\ pc = "declare"
    /\ LET index == _get_index_and_route_from_func(heap, router_routes[UserRouter], Function(func))
       IN  IF index = 0
           THEN /\ pc' = "failed"
                /\ error' = "LookupError"
                /\ heap' = heap
           ELSE /\ heap' = [heap EXCEPT ![router_routes[UserRouter][index]].tags =
                                           Append(@, _DELETED_ROUTE_TAG)]
                /\ UNCHANGED << pc, error >>
    /\ UNCHANGED << router_routes, parent_router, annotation_transformer, annotation_cache,
                    routes_that_never_existed, router, routers, versions, parent_at_call >>

\* VersionedAPIRouter.only_exists_in_older_versions(endpoint): raises when no
\* route has the endpoint or when the route already carries the marker.
only_exists_in_older_versions(func) ==
    /\ pc = "declare"
    /\ LET index == _get_index_and_route_from_func(heap, router_routes[UserRouter], Function(func))
       IN  IF index = 0
           THEN /\ pc' = "failed"
                /\ error' = "LookupError"
                /\ heap' = heap
           ELSE LET route == router_routes[UserRouter][index]
                IN  IF IsDeleted(heap[route])
                    THEN /\ pc' = "failed"
                         /\ error' = "was already deleted"
                         /\ heap' = heap
                    ELSE /\ heap' = [heap EXCEPT ![route].tags = Append(@, _DELETED_ROUTE_TAG)]
                         /\ UNCHANGED << pc, error >>
    /\ UNCHANGED << router_routes, parent_router, annotation_transformer, annotation_cache,
                    routes_that_never_existed, router, routers, versions, parent_at_call >>

\* ------------------------------------------------- _AnnotationTransformer
\* What a retargeting call leaves: the cache, the value returned and the
\* error raised (None: none).
Changed(cache, value, err) == [cache |-> cache, value |-> value, err |-> err]

\* Mutant of CacheIndex: no call finds its arguments in the cache.
CacheIndex_AlwaysMiss(cache, annotation, version_dir) == 0

\* functools.cache (line 333): the entry stored for the arguments (0: none).
CacheIndex(cache, annotation, version_dir) ==
    LET hits == { i \in DOMAIN cache : /\ cache[i].annotation = annotation
                                      /\ cache[i].version_dir = version_dir }
    IN  IF hits = {} THEN 0 ELSE CHOOSE i \in hits : \A j \in hits : i <= j

\* universi._utils.get_another_version_of_cls: the class of the same name in
\* the version's directory; a class of no versioned package is returned as is.
get_another_version_of_cls(cls_from_old_version, new_version_dir) ==
    IF cls_from_old_version.dir = Outside THEN cls_from_old_version
    ELSE [cls_from_old_version EXCEPT !.dir = new_version_dir]

\* Mutant of _change_version_of_type: the place of the source file is not looked at.
_change_version_of_type_Unchecked(annotation, version_dir) ==
    IF annotation.is_schema
    THEN [value |-> get_another_version_of_cls(annotation, version_dir), err |-> None]
    ELSE [value |-> annotation, err |-> None]

\* _change_version_of_type: while the router is taken to the newest version's
\* directory, a schema whose source file is in a version directory and not in
\* the latest package raises.
_change_version_of_type(annotation, version_dir) ==
    IF annotation.is_schema
    THEN IF /\ version_dir = latest_version_dir
            /\ annotation.dir # Outside
            /\ annotation.dir # TemplateDir
         THEN [value |-> annotation, err |-> "is not defined in latest"]
         ELSE [value |-> get_another_version_of_cls(annotation, version_dir), err |-> None]
    ELSE [value |-> annotation, err |-> None]

\* dict.get(key, default) on a dict kept as a list of keys and a list of values.
DictGet(dict, key, default) ==
    LET found == { i \in DOMAIN dict.keys : dict.keys[i] = key }
    IN  IF found = {} THEN default ELSE dict.values[CHOOSE i \in found : TRUE]

\* Mutant of SignatureParameters: the counter of defaults is not advanced.
RECURSIVE SignatureParameters_StuckCounter(_, _, _)
SignatureParameters_StuckCounter(new_callable, old_params, default_counter) ==
    IF old_params = << >> THEN << >>
    ELSE LET param == Head(old_params)
             default == IF param.default # Empty
                        THEN new_callable.__defaults__[default_counter + 1] ELSE Empty
         IN  << Parameter(param.name, param.kind, default,
                          DictGet(new_callable.__annotations__, param.name, Empty)) >>
             \o SignatureParameters_StuckCounter(new_callable, Tail(old_params), default_counter)

RECURSIVE SignatureParameters(_, _, _)
\* Lines 516-534: the loop over old_params; default_counter counts the
\* defaults taken from new_callable.__defaults__ so far.
SignatureParameters(new_callable, old_params, default_counter) ==
    IF old_params = << >> THEN << >>
    ELSE LET param == Head(old_params)
             default == IF param.default # Empty
                        THEN new_callable.__defaults__[default_counter + 1] ELSE Empty
         IN  << Parameter(param.name, param.kind, default,
                          DictGet(new_callable.__annotations__, param.name, Empty)) >>
             \o SignatureParameters(new_callable, Tail(old_params),
                    IF param.default # Empty THEN default_counter + 1 ELSE default_counter)

\* _generate_signature(new_callable, old_params)
_generate_signature(new_callable, old_params) ==
    [parameters |-> SignatureParameters(new_callable, old_params, 0),
     return_annotation |-> DictGet(new_callable.__annotations__, "return", Empty)]

\* __annotations__ of a function: the annotated parameters in order, then "return".
callable_annotations(annotation) ==
    LET annotated == SelectSeq(annotation.parameters, LAMBDA p : p.annotation # Empty)
        returns == annotation.return_annotation
    IN  [keys |-> [i \in DOMAIN annotated |-> annotated[i].name]
                  \o (IF returns # Empty THEN << "return" >> ELSE << >>),
         values |-> [i \in DOMAIN annotated |-> annotated[i].annotation]
                    \o (IF returns # Empty THEN << returns >> ELSE << >>)]

\* Line 406: the defaults of the parameters that have one, in order.
DefaultsOf(old_params) ==
    LET with_default == SelectSeq(old_params, LAMBDA p : p.default # Empty)
    IN  [i \in DOMAIN with_default |-> with_default[i].default]

RECURSIVE _change_version_of_annotations(_, _, _)
RECURSIVE ChangeEach(_, _, _)
RECURSIVE ChangeRest(_, _, _)
RECURSIVE _change_versions_of_a_non_container_annotation(_, _, _)

\* functools.cache stores the value a call returns; a call that raises stores
\* nothing.
Remember(body, annotation, version_dir) ==
    IF body.err # None THEN body
    ELSE Changed(Append(body.cache, [annotation |-> annotation,
                                     version_dir |-> version_dir,
                                     result |-> body.value]),
                 body.value, None)

\* _change_version_of_annotations on a value that is no container: the cached
\* call of line 434.
_change_version_of_annotations(cache, annotation, version_dir) ==
    IF CacheIndex(cache, annotation, version_dir) # 0
    THEN Changed(cache, cache[CacheIndex(cache, annotation, version_dir)].result, None)
    ELSE Remember(_change_versions_of_a_non_container_annotation(cache, annotation,
                                                                 version_dir),
                  annotation, version_dir)

\* The value of the first element put before the values of the others.
Prepend(value, rest) == Changed(rest.cache, << value >> \o rest.value, rest.err)

\* _change_version_of_annotations on a list or tuple (lines 431-432), and on
\* the values of a dict (423-429; the keys of __annotations__ are strings,
\* which retargeting returns as they are): each element in turn.
ChangeEach(cache, annotations, version_dir) ==
    IF annotations = << >> THEN Changed(cache, << >>, None)
    ELSE ChangeRest(_change_version_of_annotations(cache, Head(annotations), version_dir),
                    Tail(annotations), version_dir)

\* The elements after the first, unless the first raised.
ChangeRest(first, rest, version_dir) ==
    IF first.err # None THEN Changed(first.cache, << >>, first.err)
    ELSE Prepend(first.value, ChangeEach(first.cache, rest, version_dir))

\* Lines 379-396 and 410: the new callable, with the signature made for it.
Wrapped(annotation, version_dir, signature) ==
    [annotation EXCEPT
        !.layers = Append(@, [wrapper |-> "retarget", dir |-> version_dir]),
        !.parameters = signature.parameters,
        !.return_annotation = signature.return_annotation]

\* Lines 405-410: __defaults__ and __signature__ of the new callable, once
\* the defaults were retargeted.
NewCallable(defaults, annotations, annotation, version_dir) ==
    IF defaults.err # None THEN Changed(defaults.cache, annotation, defaults.err)
    ELSE Changed(defaults.cache,
                 Wrapped(annotation, version_dir,
                         _generate_signature(
                             [__annotations__ |->
                                  [keys |-> callable_annotations(annotation).keys,
                                   values |-> annotations],
                              __defaults__ |-> defaults.value],
                             annotation.parameters)),
                 None)

\* Lines 401-408: the defaults are retargeted after the annotations.
ChangeDefaults(annotations, annotation, version_dir) ==
    IF annotations.err # None THEN Changed(annotations.cache, annotation, annotations.err)
    ELSE NewCallable(ChangeEach(annotations.cache, DefaultsOf(annotation.parameters),
                                version_dir),
                     annotations.value, annotation, version_dir)

\* Lines 376-410: a new callable around the given one, with the annotations
\* and defaults of version_dir and the signature made from them.
change_version_of_callable(cache, annotation, version_dir) ==
    ChangeDefaults(ChangeEach(cache, callable_annotations(annotation).values, version_dir),
                   annotation, version_dir)

\* Lines 358-361 and 367-371: the generic or union of the retargeted arguments.
WithArgs(args, annotation) ==
    IF args.err # None THEN Changed(args.cache, annotation, args.err)
    ELSE Changed(args.cache, [annotation EXCEPT !.args = args.value], None)

\* Lines 362-366: a Depends on the retargeted dependency.
WithDependency(dependency, annotation) ==
    IF dependency.err # None THEN Changed(dependency.cache, annotation, dependency.err)
    ELSE Changed(dependency.cache, [annotation EXCEPT !.dependency = dependency.value], None)

\* Lines 374-375: the class that _change_version_of_type returns or the error
\* it raises.
OfType(cache, another) == Changed(cache, another.value, another.err)

\* _change_versions_of_a_non_container_annotation
_change_versions_of_a_non_container_annotation(cache, annotation, version_dir) ==
    CASE annotation.kind \in {"GenericAlias", "UnionType"} ->
            WithArgs(ChangeEach(cache, annotation.args, version_dir), annotation)
      [] annotation.kind = "Depends" ->
            WithDependency(_change_version_of_annotations(cache, annotation.dependency,
                                                          version_dir),
                           annotation)
      [] annotation.kind = "class" ->
            OfType(cache, _change_version_of_type(annotation, version_dir))
      [] annotation.kind = "callable" -> change_version_of_callable(cache, annotation, version_dir)
      [] OTHER -> Changed(cache, annotation, None)

\* What migrating routes leaves: the cache, the heap and the error raised.
Migrated(cache, h, err) == [cache |-> cache, heap |-> h, err |-> err]

\* Line 354: the endpoint is replaced last.
MigrateEndpoint(endpoint, route) ==
    IF endpoint.err # None THEN Changed(endpoint.cache, route, endpoint.err)
    ELSE Changed(endpoint.cache, [route EXCEPT !.endpoint = endpoint.value], None)

\* Lines 353-354: the dependencies are replaced, then the endpoint.
MigrateDependencies(dependencies, route, version_dir) ==
    IF dependencies.err # None THEN Changed(dependencies.cache, route, dependencies.err)
    ELSE MigrateEndpoint(
             _change_version_of_annotations(dependencies.cache, route.endpoint, version_dir),
             [route EXCEPT !.dependencies = dependencies.value])

\* Lines 351-354: the response model is replaced, then the rest.
MigrateResponseModel(response_model, route, version_dir) ==
    IF response_model.err # None
    THEN Changed(response_model.cache, route, response_model.err)
    ELSE MigrateDependencies(
             ChangeEach(response_model.cache, route.dependencies, version_dir),
             [route EXCEPT !.response_model = response_model.value], version_dir)

\* migrate_route_to_version: response_model, dependencies and endpoint are
\* replaced on the route object itself, in this order, up to the first error.
migrate_route_to_version(cache, route, version_dir, ignore_response_model) ==
    MigrateResponseModel(
        IF route.response_model # NoneValue /\ ~ ignore_response_model
        THEN _change_version_of_annotations(cache, route.response_model, version_dir)
        ELSE Changed(cache, route.response_model, None),
        route, version_dir)

RECURSIVE MigrateRoutes(_, _, _, _)
RECURSIVE MigrateRest(_, _, _, _)
\* Lines 343-346: the routes of router.routes in turn, marked or not.
MigrateRoutes(cache, h, routes, version_dir) ==
    IF routes = << >> THEN Migrated(cache, h, None)
    ELSE MigrateRest(migrate_route_to_version(cache, h[Head(routes)], version_dir, FALSE),
                     h, routes, version_dir)

\* The routes after the first, unless the first raised.
MigrateRest(first, h, routes, version_dir) ==
    IF first.err # None
    THEN Migrated(first.cache, [h EXCEPT ![Head(routes)] = first.value], first.err)
    ELSE MigrateRoutes(first.cache, [h EXCEPT ![Head(routes)] = first.value],
                       Tail(routes), version_dir)

\* Mutant of migrate_router_to_version: the directory is not looked for.
migrate_router_to_version_NoDirCheck(cache, h, routes, version_dir, is_dir) ==
    MigrateRoutes(cache, h, routes, version_dir)

\* migrate_router_to_version: raises when the version's directory is missing.
migrate_router_to_version(cache, h, routes, version_dir, is_dir) ==
    IF ~ is_dir THEN Migrated(cache, h, "does not exist")
    ELSE MigrateRoutes(cache, h, routes, version_dir)

\* ------------------------------------------------- data-migration injector
RECURSIVE _add_data_migrations_to_all_routes_SkipDeleted(_, _)
\* Mutant of _add_data_migrations_to_all_routes: the routes that carry the
\* marker are passed over.
_add_data_migrations_to_all_routes_SkipDeleted(h, routes) ==
    IF routes = << >> THEN [heap |-> h, err |-> None]
    ELSE IF IsDeleted(h[Head(routes)])
         THEN _add_data_migrations_to_all_routes_SkipDeleted(h, Tail(routes))
    ELSE IF ~ is_async_callable(h[Head(routes)].endpoint)
         THEN [heap |-> h, err |-> "must be asynchronous"]
         ELSE _add_data_migrations_to_all_routes_SkipDeleted(
                  [h EXCEPT ![Head(routes)].endpoint = versioned(@)], Tail(routes))

RECURSIVE _add_data_migrations_to_all_routes(_, _)
\* _add_data_migrations_to_route on each route in turn; stops at the first
\* route whose endpoint is not asynchronous.
_add_data_migrations_to_all_routes(h, routes) ==
    IF routes = << >> THEN [heap |-> h, err |-> None]
    ELSE IF ~ is_async_callable(h[Head(routes)].endpoint)
         THEN [heap |-> h, err |-> "must be asynchronous"]
         ELSE _add_data_migrations_to_all_routes(
                  [h EXCEPT ![Head(routes)].endpoint = versioned(@)], Tail(routes))

\* ------------------------------------------------------ copies of routers
\* APIRouter.include_router: a new APIRoute per route, with the same
\* endpoint and a new tags list holding the same tags.
include_router(h, routes) ==
    [heap |-> h \o [i \in DOMAIN routes |-> h[routes[i]]],
     routes |-> [i \in DOMAIN routes |-> Len(h) + i]]

\* Mutant of deepcopy: the copy holds the route objects of the original.
deepcopy_SharedRoutes(h, routes) == [heap |-> h, routes |-> routes]

\* copy.deepcopy(router): new route objects with equal attributes; function
\* objects and classes are not copied.
deepcopy(h, routes) ==
    [heap |-> h \o [i \in DOMAIN routes |-> h[routes[i]]],
     routes |-> [i \in DOMAIN routes |-> Len(h) + i]]

\* Mutant of InitialRoutesThatNeverExisted: no route is tracked.
InitialRoutesThatNeverExisted_Empty(h, routes) == << >>

\* Lines 128-130: the routes of the parent router that carry the marker.
InitialRoutesThatNeverExisted(h, routes) ==
    SelectSeq(routes, LAMBDA id : IsDeleted(h[id]))

\* Mutant of WithoutDeletedRoutes: the marked routes stay in the table.
WithoutDeletedRoutes_KeepAll(h, routes) == routes

\* Lines 143-147: the routes of a list that do not carry the marker.
WithoutDeletedRoutes(h, routes) ==
    SelectSeq(routes, LAMBDA id : ~ IsDeleted(h[id]))

\* The attributes of the routes of a router object, in list order.
RouteValues(h, routes) == [i \in DOMAIN routes |-> h[routes[i]]]

\* _AnnotationTransformer.__init__, lines 310-318: the error it raises.
AnnotationTransformerError(latest_schemas_module) ==
    IF ~ latest_schemas_module.is_package THEN "must be a package"
    ELSE IF ~ EndsWithDotLatest(latest_schemas_module.name) THEN "must be \"latest\""
    ELSE None

\* generate_all_router_versions, up to the call of transform(): data
\* migrations on the user's routes, a fresh root router, and
\* _EndpointTransformer.__init__.
generate_all_router_versions(latest_schemas_module) ==
    /\ pc = "declare"
    /\ LET migrated == _add_data_migrations_to_all_routes(heap, router_routes[UserRouter])
           root == include_router(migrated.heap, router_routes[UserRouter])
       IN  IF migrated.err # None
           THEN /\ heap' = migrated.heap
                /\ pc' = "failed"
                /\ error' = migrated.err
                /\ UNCHANGED << router_routes, parent_router, annotation_transformer,
                                routes_that_never_existed, router, parent_at_call >>
           ELSE IF /\ latest_schemas_module # NoneValue
                   /\ AnnotationTransformerError(latest_schemas_module) # None
           THEN /\ heap' = root.heap
                /\ router_routes' = Append(router_routes, root.routes)
                /\ pc' = "failed"
                /\ error' = AnnotationTransformerError(latest_schemas_module)
                /\ UNCHANGED << parent_router, annotation_transformer,
                                routes_that_never_existed, router, parent_at_call >>
           ELSE /\ heap' = root.heap
                /\ router_routes' = Append(router_routes, root.routes)
                /\ parent_router' = Len(router_routes) + 1
                /\ annotation_transformer' = (latest_schemas_module # NoneValue)
                /\ routes_that_never_existed' =
                       InitialRoutesThatNeverExisted(root.heap, root.routes)
                /\ router' = Len(router_routes) + 1
                /\ parent_at_call' = RouteValues(root.heap, root.routes)
                /\ pc' = "version"
                /\ error' = None
    /\ UNCHANGED << annotation_cache, routers, versions >>

\* ------------------------------------------------------------- _get_routes
\* Mutant of _get_routes: the search stops at the first route it finds.
_get_routes_First(h, routes, endpoint_path, endpoint_methods, endpoint_func_name, is_deleted) ==
    LET found == SelectSeq(routes, LAMBDA id :
                     /\ h[id].path = endpoint_path
                     /\ h[id].methods \subseteq endpoint_methods
                     /\ (endpoint_func_name = None \/ h[id].endpoint.name = endpoint_func_name)
                     /\ IsDeleted(h[id]) = is_deleted)
    IN  IF found = << >> THEN << >> ELSE << Head(found) >>

\* The routes of the list, in list order, with the path, a method set inside
\* endpoint_methods, the function name (when one is given) and the deleted state.
_get_routes(h, routes, endpoint_path, endpoint_methods, endpoint_func_name, is_deleted) ==
    SelectSeq(routes, LAMBDA id :
        /\ h[id].path = endpoint_path
        /\ h[id].methods \subseteq endpoint_methods
        /\ (endpoint_func_name = None \/ h[id].endpoint.name = endpoint_func_name)
        /\ IsDeleted(h[id]) = is_deleted)

\* Mutant of HasRepetitions: no repetition is ever found.
HasRepetitions_Never(h, routes) == FALSE

\* _validate_no_repetitions_in_routes raises RouteAlreadyExistsError: two
\* routes of the list have the same _EndpointInfo(path, frozenset(methods)).
HasRepetitions(h, routes) ==
    \E i, j \in DOMAIN routes :
        /\ i < j
        /\ h[routes[i]].path = h[routes[j]].path
        /\ h[routes[i]].methods = h[routes[j]].methods

\* methods_to_which_we_applied_changes after the loop over the routes found.
MethodUnion(h, routes) == UNION { h[id].methods : id \in Range(routes) }

\* Mutant of method_diff: the declared methods are never compared.
method_diff_Unchecked(h, instruction, affected) == {}

\* Lines 278-287: the declared methods that no affected route accounts for.
method_diff(h, instruction, affected) ==
    instruction.endpoint_methods \ MethodUnion(h, affected)

\* The outcome of one instruction: the heap, routes_that_never_existed and
\* the error raised (None: none).
Outcome(h, never, err) == [heap |-> h, never |-> never, err |-> err]

\* ---------------------------------------------- EndpointDidntExistInstruction
\* Mutant of ApplyDidntExist: the routes found are not marked.
ApplyDidntExist_NoMark(h, never, routes, instruction) ==
    LET original_routes == _get_routes(h, routes, instruction.endpoint_path,
                               instruction.endpoint_methods, instruction.endpoint_func_name, FALSE)
        deleted_routes == _get_routes(h, routes, instruction.endpoint_path,
                               instruction.endpoint_methods, instruction.endpoint_func_name, TRUE)
    IN  IF deleted_routes # << >>
        THEN Outcome(h, never, "was already deleted in a newer version")
        ELSE IF method_diff(h, instruction, original_routes) # {}
             THEN Outcome(h, never, "doesn't exist in a newer version")
             ELSE Outcome(h, never, None)

\* Mutant of ApplyDidntExist: routes already marked are not looked for.
ApplyDidntExist_NoDeletedCheck(h, never, routes, instruction) ==
    LET original_routes == _get_routes(h, routes, instruction.endpoint_path,
                               instruction.endpoint_methods, instruction.endpoint_func_name, FALSE)
        marked == [id \in DOMAIN h |->
                      IF id \in Range(original_routes)
                      THEN [h[id] EXCEPT !.tags = Append(@, _DELETED_ROUTE_TAG)]
                      ELSE h[id]]
    IN  IF method_diff(h, instruction, original_routes) # {}
        THEN Outcome(marked, never, "doesn't exist in a newer version")
        ELSE Outcome(marked, never, None)

ApplyDidntExist(h, never, routes, instruction) ==
    LET original_routes == _get_routes(h, routes, instruction.endpoint_path,
                               instruction.endpoint_methods, instruction.endpoint_func_name, FALSE)
        deleted_routes == _get_routes(h, routes, instruction.endpoint_path,
                               instruction.endpoint_methods, instruction.endpoint_func_name, TRUE)
        marked == [id \in DOMAIN h |->
                      IF id \in Range(original_routes)
                      THEN [h[id] EXCEPT !.tags = Append(@, _DELETED_ROUTE_TAG)]
                      ELSE h[id]]
    IN  IF deleted_routes # << >>
        THEN Outcome(h, never, "was already deleted in a newer version")
        ELSE IF method_diff(h, instruction, original_routes) # {}
             THEN Outcome(marked, never, "doesn't exist in a newer version")
             ELSE Outcome(marked, never, None)

\* ------------------------------------------------- EndpointExistedInstruction
RECURSIVE ForgetRestored(_, _, _)
\* Lines 237-238 for each restored route in turn: the first route of
\* routes_that_never_existed equal to it (Route.__eq__) is removed.
ForgetRestored(h, never, restored) ==
    IF restored = << >> THEN never
    ELSE LET equal == { k \in DOMAIN never : RouteEq(h[never[k]], h[Head(restored)]) }
             first == CHOOSE k \in equal : \A j \in equal : k <= j
         IN  IF equal = {} THEN ForgetRestored(h, never, Tail(restored))
             ELSE ForgetRestored(h,
                      [k \in 1..(Len(never) - 1) |-> IF k < first THEN never[k] ELSE never[k + 1]],
                      Tail(restored))

\* Mutant of ApplyExisted: active routes of the identity are not looked for.
ApplyExisted_NoActiveCheck(h, never, routes, instruction) ==
    LET deleted_routes == _get_routes(h, routes, instruction.endpoint_path,
                               instruction.endpoint_methods, instruction.endpoint_func_name, TRUE)
        restored == [id \in DOMAIN h |->
                        IF id \in Range(deleted_routes)
                        THEN [h[id] EXCEPT !.tags = RemoveFirst(@, _DELETED_ROUTE_TAG)]
                        ELSE h[id]]
        forgotten == ForgetRestored(restored, never, deleted_routes)
    IN  IF HasRepetitions(h, deleted_routes)
        THEN Outcome(h, never, "has different applicable routes that could be restored")
        ELSE IF method_diff(h, instruction, deleted_routes) # {}
             THEN Outcome(restored, forgotten, "wasn't among the deleted routes")
             ELSE Outcome(restored, forgotten, None)

ApplyExisted(h, never, routes, instruction) ==
    LET original_routes == _get_routes(h, routes, instruction.endpoint_path,
                               instruction.endpoint_methods, instruction.endpoint_func_name, FALSE)
        deleted_routes == _get_routes(h, routes, instruction.endpoint_path,
                               instruction.endpoint_methods, instruction.endpoint_func_name, TRUE)
        restored == [id \in DOMAIN h |->
                        IF id \in Range(deleted_routes)
                        THEN [h[id] EXCEPT !.tags = RemoveFirst(@, _DELETED_ROUTE_TAG)]
                        ELSE h[id]]
        forgotten == ForgetRestored(restored, never, deleted_routes)
    IN  IF original_routes # << >>
        THEN Outcome(h, never, "already existed in a newer version")
        ELSE IF HasRepetitions(h, deleted_routes)
             THEN Outcome(h, never, "has different applicable routes that could be restored")
             ELSE IF method_diff(h, instruction, deleted_routes) # {}
                  THEN Outcome(restored, forgotten, "wasn't among the deleted routes")
                  ELSE Outcome(restored, forgotten, None)

\* ----------------------------------------------------- EndpointHadInstruction
\* Mutant of _apply_endpoint_had_instruction: attributes are overwritten
\* without being compared.
_apply_endpoint_had_instruction_NoCompare(route, attributes) ==
    [route |-> [route EXCEPT
                   !.path = IF attributes.path # Sentinel THEN attributes.path ELSE @,
                   !.deprecated = IF attributes.deprecated # Sentinel
                                  THEN attributes.deprecated ELSE @],
     err |-> None]

\* _apply_endpoint_had_instruction on one route: the declared attributes in
\* field order; an attribute that already has the value raises, after the
\* attributes before it were set.
_apply_endpoint_had_instruction(route, attributes) ==
    LET path_same == attributes.path # Sentinel /\ route.path = attributes.path
        after_path == IF attributes.path # Sentinel /\ ~ path_same
                      THEN [route EXCEPT !.path = attributes.path] ELSE route
        deprecated_same == attributes.deprecated # Sentinel
                           /\ after_path.deprecated = attributes.deprecated
        after_deprecated == IF attributes.deprecated # Sentinel /\ ~ deprecated_same
                            THEN [after_path EXCEPT !.deprecated = attributes.deprecated]
                            ELSE after_path
    IN  IF path_same THEN [route |-> route, err |-> "to be different"]
        ELSE IF deprecated_same THEN [route |-> after_path, err |-> "to be different"]
        ELSE [route |-> after_deprecated, err |-> None]

RECURSIVE HadLoop(_, _, _)
\* Lines 244-246: the routes in turn, until one raises.
HadLoop(h, todo, attributes) ==
    IF todo = << >> THEN [heap |-> h, err |-> None]
    ELSE LET one == _apply_endpoint_had_instruction(h[Head(todo)], attributes)
             h2 == [h EXCEPT ![Head(todo)] = one.route]
         IN  IF one.err # None THEN [heap |-> h2, err |-> one.err]
             ELSE HadLoop(h2, Tail(todo), attributes)

ApplyHad(h, never, routes, instruction) ==
    LET original_routes == _get_routes(h, routes, instruction.endpoint_path,
                               instruction.endpoint_methods, instruction.endpoint_func_name, FALSE)
        changed == HadLoop(h, original_routes, instruction.attributes)
    IN  IF changed.err # None THEN Outcome(changed.heap, never, changed.err)
        ELSE IF method_diff(h, instruction, original_routes) # {}
             THEN Outcome(changed.heap, never, "doesn't exist")
             ELSE Outcome(changed.heap, never, None)

\* ----------------------------------------------------- EndpointWasInstruction
\* Lines 255-266 on one route: the old endpoint is put in place and, when
\* schemas are versioned, the route is retargeted to this version's directory.
ReplaceEndpoint(cache, route, old_endpoint, retarget, version_dir) ==
    LET replaced == [route EXCEPT !.endpoint = old_endpoint]
    IN  IF retarget THEN migrate_route_to_version(cache, replaced, version_dir, TRUE)
        ELSE Changed(cache, replaced, None)

RECURSIVE WasLoop(_, _, _, _, _, _)
RECURSIVE WasRest(_, _, _, _, _, _)
\* Lines 253-270: the routes in turn, until one raises; each is wrapped with
\* the data migrations after its endpoint was replaced.
WasLoop(cache, h, todo, old_endpoint, retarget, version_dir) ==
    IF todo = << >> THEN Migrated(cache, h, None)
    ELSE WasRest(ReplaceEndpoint(cache, h[Head(todo)], old_endpoint, retarget, version_dir),
                 h, todo, old_endpoint, retarget, version_dir)

\* Lines 267-269 on the route whose endpoint was replaced, then the other routes.
WasRest(replaced, h, todo, old_endpoint, retarget, version_dir) ==
    IF replaced.err # None
    THEN Migrated(replaced.cache, [h EXCEPT ![Head(todo)] = replaced.value], replaced.err)
    ELSE IF ~ is_async_callable(replaced.value.endpoint)
    THEN Migrated(replaced.cache, [h EXCEPT ![Head(todo)] = replaced.value],
                  "must be asynchronous")
    ELSE WasLoop(replaced.cache,
                 [h EXCEPT ![Head(todo)] =
                     [replaced.value EXCEPT !.endpoint = versioned(@)]],
                 Tail(todo), old_endpoint, retarget, version_dir)

\* An outcome together with the cache the instruction leaves.
WithCache(outcome, cache) ==
    [heap |-> outcome.heap, never |-> outcome.never, err |-> outcome.err, cache |-> cache]

\* Lines 276-287 after the loop of a handler-was-different instruction.
WasOutcome(changed, never, diff) ==
    IF changed.err # None
    THEN WithCache(Outcome(changed.heap, never, changed.err), changed.cache)
    ELSE IF diff # {}
         THEN WithCache(Outcome(changed.heap, never, "handler doesn't exist"), changed.cache)
         ELSE WithCache(Outcome(changed.heap, never, None), changed.cache)

ApplyWas(cache, h, never, routes, instruction, retarget, version_dir) ==
    LET original_routes == _get_routes(h, routes, instruction.endpoint_path,
                               instruction.endpoint_methods, instruction.endpoint_func_name, FALSE)
    IN  WasOutcome(WasLoop(cache, h, original_routes, instruction.old_endpoint, retarget,
                           version_dir),
                   never, method_diff(h, instruction, original_routes))

\* One pass of the inner loop of _apply_endpoint_changes_to_router.
ApplyInstructionTo(cache, h, never, routes, instruction, retarget, version_dir) ==
    CASE instruction.kind = "didnt_exist" ->
            WithCache(ApplyDidntExist(h, never, routes, instruction), cache)
      [] instruction.kind = "existed" ->
            WithCache(ApplyExisted(h, never, routes, instruction), cache)
      [] instruction.kind = "had" ->
            WithCache(ApplyHad(h, never, routes, instruction), cache)
      [] instruction.kind = "was" ->
            ApplyWas(cache, h, never, routes, instruction, retarget, version_dir)

\* ------------------------------------------------ _EndpointTransformer.transform
\* Lines 139-140 after the router was retargeted: it is recorded as the
\* version's table and copied, unless retargeting raised.
RecordVersion(migrated) ==
    IF migrated.err # None
    THEN /\ heap' = migrated.heap
         /\ annotation_cache' = migrated.cache
         /\ pc' = "failed"
         /\ error' = migrated.err
         /\ UNCHANGED << router_routes, routers, router, versions >>
    ELSE /\ heap' = deepcopy(migrated.heap, router_routes[router]).heap
         /\ annotation_cache' = migrated.cache
         /\ router_routes' = Append(router_routes,
                                    deepcopy(migrated.heap, router_routes[router]).routes)
         /\ routers' = Append(routers, router)
         /\ router' = Len(router_routes) + 1
         /\ versions' = Append(versions, << >>)
         /\ pc' = "instruction"
         /\ error' = error

\* Lines 135-140: the next version of the ledger.  The router is retargeted in
\* place, recorded as the version's table, and copied.  is_dir: whether the
\* version's schema directory exists.
BeginVersion(is_dir) ==
    /\ pc = "version"
    /\ Len(versions) < MaxVersions
    /\ RecordVersion(IF annotation_transformer
                     THEN migrate_router_to_version(annotation_cache, heap,
                              router_routes[router], Len(versions) + 1, is_dir)
                     ELSE Migrated(annotation_cache, heap, None))
    /\ UNCHANGED << parent_router, annotation_transformer, routes_that_never_existed,
                    parent_at_call >>

RECURSIVE LedgerSize(_)
LedgerSize(ledger) ==
    IF ledger = << >> THEN 0 ELSE Len(Head(ledger)) + LedgerSize(Tail(ledger))

\* What an instruction leaves: the changed routes, the cache, the list of
\* routes never restored and the error it raised.
Replayed(out, instruction) ==
    /\ heap' = out.heap
    /\ annotation_cache' = out.cache
    /\ routes_that_never_existed' = out.never
    /\ error' = out.err
    /\ pc' = IF out.err = None THEN "instruction" ELSE "failed"
    /\ versions' = IF out.err = None
                   THEN [versions EXCEPT ![Len(versions)] = Append(@, instruction)]
                   ELSE versions

\* Lines 164-287: the next instruction of the version, applied to the copy.
\* `versions` keeps the instructions that were replayed without an error.
ApplyInstruction(instruction) ==
    /\ pc = "instruction"
    /\ LedgerSize(versions) < MaxLedger
    /\ Replayed(ApplyInstructionTo(annotation_cache, heap, routes_that_never_existed,
                    router_routes[router], instruction, annotation_transformer,
                    Len(versions)),
                instruction)
    /\ UNCHANGED << router_routes, parent_router, annotation_transformer, router, routers,
                    parent_at_call >>

\* Mutant of EndVersion: the marked routes leave the working copy as well.
EndVersion_FilterWorkingCopy ==
    /\ pc = "instruction"
    /\ router_routes' = [router_routes EXCEPT
                            ![routers[Len(routers)]] = WithoutDeletedRoutes(heap, @),
                            ![router] = WithoutDeletedRoutes(heap, @)]
    /\ pc' = "version"
    /\ UNCHANGED << heap, parent_router, annotation_transformer, annotation_cache,
                    routes_that_never_existed, router, routers, versions, error,
                    parent_at_call >>

\* Lines 143-147: the version has no more instructions; the routes marked
\* deleted leave the version's table.
EndVersion ==
    /\ pc = "instruction"
    /\ router_routes' = [router_routes EXCEPT ![routers[Len(routers)]] =
                            WithoutDeletedRoutes(heap, @)]
    /\ pc' = "version"
    /\ UNCHANGED << heap, parent_router, annotation_transformer, annotation_cache,
                    routes_that_never_existed, router, routers, versions, error,
                    parent_at_call >>

\* Lines 148-156: the ledger is exhausted.
Return ==
    /\ pc = "version"
    /\ IF routes_that_never_existed # << >>
       THEN pc' = "failed" /\ error' = "were never restored"
       ELSE pc' = "done" /\ error' = None
    /\ UNCHANGED << heap, router_routes, parent_router, annotation_transformer,
                    annotation_cache, routes_that_never_existed, router, routers, versions,
                    parent_at_call >>

Next ==
    \/ \E decl \in RouteDecls : AddRoute(decl)
    \/ \E func \in {"f", "g", "h"} : only_exists_in_older_versions(func)
    \/ \E latest_schemas_module \in LatestSchemasModules :
          generate_all_router_versions(latest_schemas_module)
    \/ \E is_dir \in BOOLEAN : BeginVersion(is_dir)
    \/ \E instruction \in Instructions : ApplyInstruction(instruction)
    \/ EndVersion
    \/ Return

Spec == Init /\ [][Next]_vars

\* ------------------------------------------- routers with typed signatures
\* The second specification derives the versions of routers whose handlers
\* and dependencies have parameters, defaults and annotations, with a valid
\* latest schema package.
MaxParams == 2

\* Schemas of the latest package, of the directories of the first and second
\* version of the ledger, and of no versioned package; a class that is no schema.
Body == SchemaType("Body", TemplateDir)
BodyOfVersion1 == SchemaType("Body", 1)
BodyOfVersion2 == SchemaType("Body", 2)
Settings == SchemaType("Settings", Outside)
IntClass == Class("int", Outside, FALSE)

\* A dependency function that takes a schema of the latest package.
get_body == Callable("get_body",
                << Parameter("body", "POSITIONAL_OR_KEYWORD", Empty, Body) >>, Empty)

ParamNames == << "a", "b", "c", "d" >>
ParamKinds == { "POSITIONAL_OR_KEYWORD", "KEYWORD_ONLY" }
ParamDefaults == { Empty, NoneValue, Depends(get_body, TRUE) }
ParamAnnotations == { Empty, Body }

\* What Python accepts as a parameter list: keyword-only parameters come last,
\* and no positional parameter without a default follows one with a default.
ValidParams(params) ==
    \A i, j \in DOMAIN params :
        i < j =>
            /\ params[i].kind = "KEYWORD_ONLY" => params[j].kind = "KEYWORD_ONLY"
            /\ ( /\ params[i].kind = "POSITIONAL_OR_KEYWORD"
                 /\ params[j].kind = "POSITIONAL_OR_KEYWORD"
                 /\ params[i].default # Empty ) => params[j].default # Empty

ParamLists ==
    UNION { { params \in [1..n -> [name : Range(ParamNames), kind : ParamKinds,
                                    default : ParamDefaults, annotation : ParamAnnotations]] :
                /\ \A i \in 1..n : params[i].name = ParamNames[i]
                /\ ValidParams(params) } : n \in 0..MaxParams }

\* The annotations tried in each place of a route.
TypeAnnotations ==
    { Body, BodyOfVersion1, BodyOfVersion2, Settings, IntClass, AnyType,
      GenericAlias("list", << Body >>), GenericAlias("list", << BodyOfVersion2 >>),
      UnionType(<< BodyOfVersion1, NoneValue >>) }

\* A dependency function that takes a value of the annotation.
Taking(annotation) ==
    Callable("get_it", << Parameter("it", "POSITIONAL_OR_KEYWORD", Empty, annotation) >>, Empty)

\* GET /a with every parameter list, and with every annotation as the
\* annotation of a parameter, the return annotation, the response model, the
\* annotation of a parameter of a dependency of the route, and of a
\* dependency of a parameter.
AnnotatedRouteDecls ==
    { RouteDecl("/a", {"GET"}, Callable("f", params, Empty), NoneValue, << >>) :
        params \in ParamLists }
    \cup
    { RouteDecl("/a", {"GET"},
                Callable("f", << Parameter("a", "POSITIONAL_OR_KEYWORD", Empty, t) >>, Empty),
                NoneValue, << >>) : t \in TypeAnnotations }
    \cup
    { RouteDecl("/a", {"GET"}, Callable("f", << >>, t), NoneValue, << >>) :
        t \in TypeAnnotations }
    \cup
    { RouteDecl("/a", {"GET"}, Function("f"), t, << >>) : t \in TypeAnnotations }
    \cup
    { RouteDecl("/a", {"GET"}, Function("f"), NoneValue, << Depends(Taking(t), TRUE) >>) :
        t \in TypeAnnotations }
    \cup
    { RouteDecl("/a", {"GET"},
                Callable("f", << Parameter("a", "POSITIONAL_OR_KEYWORD",
                                           Depends(Taking(t), TRUE), Empty) >>, Empty),
                NoneValue, << >>) : t \in TypeAnnotations }

\* Routes declared next to it, which share the dependency and the schemas.
SharedRouteDecls ==
    { RouteDecl("/b", {"GET"},
                Callable("g", << Parameter("a", "POSITIONAL_OR_KEYWORD",
                                           Depends(get_body, TRUE), Body) >>, Body),
                Body, << Depends(get_body, TRUE) >>),
      RouteDecl("/a", {"POST"}, Function("g"), Body, << Depends(Taking(Body), TRUE) >>) }

\* Handler-was-different instructions for GET /a, with an older handler that
\* has parameters.
TypedWasInstructions ==
    { [kind |-> "was", endpoint_path |-> "/a", endpoint_methods |-> {"GET"},
       endpoint_func_name |-> None, attributes |-> NoAttributes, old_endpoint |-> o] :
         o \in { Function("old"),
                 Callable("old", << Parameter("a", "POSITIONAL_OR_KEYWORD",
                                              Depends(get_body, TRUE), Body) >>, Body) } }

\* The state after the first route was declared.
AnnotationInit ==
    /\ \E decl \in AnnotatedRouteDecls : heap = << APIRoute(decl) >>
    /\ router_routes = << << 1 >> >>
    /\ parent_router = 0
    /\ annotation_transformer = FALSE
    /\ annotation_cache = << >>
    /\ routes_that_never_existed = << >>
    /\ router = 0
    /\ routers = << >>
    /\ versions = << >>
    /\ pc = "declare"
    /\ error = None
    /\ parent_at_call = << >>

AnnotationNext ==
    \/ \E decl \in SharedRouteDecls : AddRoute(decl)
    \/ generate_all_router_versions(Module(<< "schemas", "latest" >>, TRUE))
    \/ \E is_dir \in BOOLEAN : BeginVersion(is_dir)
    \/ \E instruction \in TypedWasInstructions : ApplyInstruction(instruction)
    \/ EndVersion
    \/ Return

AnnotationSpec == AnnotationInit /\ [][AnnotationNext]_vars

\* ------------------------------------------------------------ observation
\* Route objects are allocated one router at a time and no router gains or
\* loses a route object after it is built, so the object made for list
\* position p of router object r is (r - 1) * RouteCount + p.
RouteCount == Len(router_routes[UserRouter])
ObjectOf(router_object, position) == (router_object - 1) * RouteCount + position
Position(id) == ((id - 1) % RouteCount) + 1

\* The table recorded for the v-th version of the ledger (1 = newest).
Table(v) == router_routes[routers[v]]
Present(position, v) == \E id \in Range(Table(v)) : Position(id) = position

\* What the instructions read and write of a route.
InstructionView(route) ==
    [path |-> route.path, methods |-> route.methods, name |-> route.endpoint.name,
     deprecated |-> route.deprecated, tags |-> route.tags]

\* The routes of a list that are not marked, as the instructions see them.
ActiveView(h, routes) ==
    LET active == SelectSeq(routes, LAMBDA id : ~ IsDeleted(h[id]))
    IN  [i \in DOMAIN active |-> InstructionView(h[active[i]])]

\* An instruction names a route: the path, a method set within the declared
\* methods and, when given, the function name.
Matches(instruction, route) ==
    /\ route.path = instruction.endpoint_path
    /\ route.methods \subseteq instruction.endpoint_methods
    /\ instruction.endpoint_func_name \in {None, route.endpoint.name}

\* The places <<version, index>> of the ledger whose instruction names the
\* route declared at a position of the latest table.
LedgerOn(position) ==
    { vk \in (DOMAIN versions) \X (1..MaxLedger) :
        /\ vk[2] \in DOMAIN versions[vk[1]]
        /\ Matches(versions[vk[1]][vk[2]], parent_at_call[position]) }

KindAt(vk) == versions[vk[1]][vk[2]].kind

\* -------------------------------------------------------------------- C1
\* C1: the table of version V is the working table as the instructions of the
\* versions newer than V left it, recorded when V is reached; no later step,
\* V's own instructions included, changes the active routes of a recorded
\* table: V's instructions act on the copy that becomes the older tables.
C1_TableFixedBeforeOwnInstructions ==
    [][ /\ \A v \in DOMAIN routers :
              /\ routers'[v] = routers[v]
              /\ ActiveView(heap', router_routes'[routers[v]])
                     = ActiveView(heap, router_routes[routers[v]])
        /\ (pc = "version" /\ pc' = "instruction") =>
              /\ routers' = Append(routers, router)
              /\ ActiveView(heap', router_routes'[router])
                     = ActiveView(heap, router_routes[router])
              /\ ActiveView(heap', router_routes'[router'])
                     = ActiveView(heap, router_routes[router])
      ]_vars

\* C1 witness: an instruction of version V has changed the working copy, which
\* now differs from the table recorded for V.
C1_Witness ==
    /\ pc = "instruction"
    /\ versions[Len(versions)] # << >>
    /\ ActiveView(heap, router_routes[router]) # ActiveView(heap, Table(Len(routers)))

\* -------------------------------------------------------------------- C2
\* The ledger names the route at `position` exactly once, by a didn't-exist
\* instruction of version x.
OnlyDidntExist(position, x) ==
    \E k \in 1..MaxLedger :
        /\ LedgerOn(position) = { << x, k >> }
        /\ KindAt(<< x, k >>) = "didnt_exist"

\* The ledger names the route exactly twice: a didn't-exist instruction of
\* version x and an existed instruction of the older version y.
DidntExistThenExisted(position, x, y) ==
    /\ x < y
    /\ \E k, m \in 1..MaxLedger :
          /\ LedgerOn(position) = { << x, k >>, << y, m >> }
          /\ KindAt(<< x, k >>) = "didnt_exist"
          /\ KindAt(<< y, m >>) = "existed"

\* C2 as stated: the endpoint is absent from the table of X and of the newer
\* versions and present in the table of every older version.
C2_AbsentFromXPresentBefore ==
    pc = "done" =>
        \A position \in DOMAIN parent_at_call : \A x \in DOMAIN versions :
            ( /\ ~ IsDeleted(parent_at_call[position])
              /\ \/ OnlyDidntExist(position, x)
                 \/ \E y \in DOMAIN versions : DidntExistThenExisted(position, x, y) )
            => /\ \A v \in 1..x : ~ Present(position, v)
               /\ \A v \in (x + 1)..Len(versions) : Present(position, v)

\* C2 amended: an endpoint active in the latest table whose only instructions
\* are a didn't-exist instruction of version X and possibly an existed
\* instruction of an older version Y is present in the table of X and of every
\* newer version, absent from the tables of the versions older than X down to
\* Y (all older versions without Y), and present again in those older than Y.
C2_PresentUntilXAbsentBefore ==
    pc = "done" =>
        \A position \in DOMAIN parent_at_call : \A x \in DOMAIN versions :
            ~ IsDeleted(parent_at_call[position]) =>
                /\ OnlyDidntExist(position, x) =>
                      /\ \A v \in 1..x : Present(position, v)
                      /\ \A v \in (x + 1)..Len(versions) : ~ Present(position, v)
                /\ \A y \in DOMAIN versions :
                      DidntExistThenExisted(position, x, y) =>
                          /\ \A v \in 1..x : Present(position, v)
                          /\ \A v \in (x + 1)..y : ~ Present(position, v)
                          /\ \A v \in (y + 1)..Len(versions) : Present(position, v)

\* C2 witness: a finished derivation with a didn't-exist instruction at X, an
\* existed instruction two versions older, and a version older than that.
C2_Witness ==
    /\ pc = "done"
    /\ \E position \in DOMAIN parent_at_call :
          /\ ~ IsDeleted(parent_at_call[position])
          /\ DidntExistThenExisted(position, 1, 3)
          /\ Len(versions) = 4
          /\ Present(position, 1) /\ ~ Present(position, 2)
          /\ ~ Present(position, 3) /\ Present(position, 4)

\* ------------------------------------------------------ C3, C4, C5, C7
\* The routes of the working table, before the step.
WorkingRoutes == Range(router_routes[router])
DeletedMatches(instruction) ==
    { id \in WorkingRoutes : Matches(instruction, heap[id]) /\ IsDeleted(heap[id]) }
ActiveMatches(instruction) ==
    { id \in WorkingRoutes : Matches(instruction, heap[id]) /\ ~ IsDeleted(heap[id]) }

\* C3: a didn't-exist instruction replayed while the working table holds a
\* marked route of its identity raises the already-deleted error, and marks
\* no route.
C3_DoubleDeleteFails ==
    [][ \A instruction \in Instructions :
            ( /\ instruction.kind = "didnt_exist"
              /\ ApplyInstruction(instruction)
              /\ DeletedMatches(instruction) # {} )
            => /\ pc' = "failed"
               /\ error' = "was already deleted in a newer version"
               /\ heap' = heap
      ]_vars

\* C3 witness: the error was raised after a didn't-exist instruction of a
\* newer version had marked a route.
C3_Witness ==
    /\ pc = "failed"
    /\ error = "was already deleted in a newer version"
    /\ \E v \in DOMAIN versions : \E k \in DOMAIN versions[v] :
          versions[v][k].kind = "didnt_exist"

\* C4 as stated: with an active route of the identity the existed instruction
\* raises and restores nothing; otherwise every marked route of the identity
\* becomes active.
C4_RestoreOrFail ==
    [][ \A instruction \in Instructions :
            ( instruction.kind = "existed" /\ ApplyInstruction(instruction) )
            => IF ActiveMatches(instruction) # {}
               THEN /\ pc' = "failed"
                    /\ error' = "already existed in a newer version"
                    /\ heap' = heap
               ELSE \A id \in DeletedMatches(instruction) : ~ IsDeleted(heap'[id])
      ]_vars

\* Two marked routes of the identity have the same path and method set.
AmbiguousRestore(instruction) ==
    \E a, b \in DeletedMatches(instruction) :
        /\ a # b
        /\ heap[a].path = heap[b].path
        /\ heap[a].methods = heap[b].methods

\* C4 amended: with an active route of the identity the existed instruction
\* raises and restores nothing; otherwise, unless two marked routes of the
\* identity have the same path and method set (then it raises too and
\* restores nothing), every marked route of the identity becomes active.
C4_RestoreOrFailUnlessAmbiguous ==
    [][ \A instruction \in Instructions :
            ( instruction.kind = "existed" /\ ApplyInstruction(instruction) )
            => IF ActiveMatches(instruction) # {}
               THEN /\ pc' = "failed"
                    /\ error' = "already existed in a newer version"
                    /\ heap' = heap
               ELSE IF AmbiguousRestore(instruction)
               THEN /\ pc' = "failed"
                    /\ error' = "has different applicable routes that could be restored"
                    /\ heap' = heap
               ELSE \A id \in DeletedMatches(instruction) : ~ IsDeleted(heap'[id])
      ]_vars

\* C4 witness: the double-restore error was raised while the working table
\* also held a marked route.
C4_Witness ==
    /\ pc = "failed"
    /\ error = "already existed in a newer version"
    /\ \E id \in WorkingRoutes : IsDeleted(heap[id])

\* The routes an instruction acts on: the marked ones for an existed
\* instruction, the active ones for the others.
Affected(instruction) ==
    IF instruction.kind = "existed" THEN DeletedMatches(instruction)
    ELSE ActiveMatches(instruction)
AffectedMethods(instruction) == UNION { heap[id].methods : id \in Affected(instruction) }

\* The errors raised before or while the routes are changed.
ApplicationErrors ==
    { "was already deleted in a newer version", "already existed in a newer version",
      "has different applicable routes that could be restored", "to be different",
      "must be asynchronous" }
\* The errors of lines 278-287, one wording per kind of instruction.
MethodErrors ==
    { "doesn't exist in a newer version", "wasn't among the deleted routes",
      "doesn't exist", "handler doesn't exist" }

\* C5: once an instruction has been applied to the routes it found, the
\* derivation fails exactly when the methods of those routes do not add up to
\* the declared methods; an instruction that finds no route always fails.
C5_PartialApplicationFails ==
    [][ \A instruction \in Instructions :
            ApplyInstruction(instruction) =>
                /\ error' \notin ApplicationErrors =>
                      ( (pc' = "failed" /\ error' \in MethodErrors)
                        <=> AffectedMethods(instruction) # instruction.endpoint_methods )
                /\ Affected(instruction) = {} => pc' = "failed"
      ]_vars

\* C5 witness: an instruction declared GET and POST, found and marked a route
\* for one of them only, and failed.
C5_Witness ==
    /\ pc = "failed"
    /\ error = "doesn't exist in a newer version"
    /\ \E id \in WorkingRoutes : IsDeleted(heap[id])

\* C7: an attribute-changed instruction raises when a declared attribute of a
\* route it found already has the value; otherwise each route it found gets
\* the declared values and keeps everything else.
DeclaredSame(instruction, route) ==
    \/ instruction.attributes.path # Sentinel /\ route.path = instruction.attributes.path
    \/ /\ instruction.attributes.deprecated # Sentinel
       /\ route.deprecated = instruction.attributes.deprecated
Overwritten(instruction, route) ==
    [path |-> IF instruction.attributes.path # Sentinel
              THEN instruction.attributes.path ELSE route.path,
     deprecated |-> IF instruction.attributes.deprecated # Sentinel
                    THEN instruction.attributes.deprecated ELSE route.deprecated,
     methods |-> route.methods, endpoint |-> route.endpoint,
     response_model |-> route.response_model, dependencies |-> route.dependencies,
     tags |-> route.tags]

C7_AttributeChange ==
    [][ \A instruction \in Instructions :
            ( instruction.kind = "had" /\ ApplyInstruction(instruction) )
            => IF \E id \in ActiveMatches(instruction) : DeclaredSame(instruction, heap[id])
               THEN pc' = "failed" /\ error' = "to be different"
               ELSE \A id \in ActiveMatches(instruction) :
                        heap'[id] = Overwritten(instruction, heap[id])
      ]_vars

\* C7 witness: an instruction declaring path and deprecated was applied; the
\* route has both values and the handler and methods it had in the latest table.
C7_Witness ==
    /\ pc = "instruction"
    /\ \E k \in DOMAIN versions[Len(versions)] :
          /\ versions[Len(versions)][k].kind = "had"
          /\ versions[Len(versions)][k].attributes.path = "/b"
    /\ \E id \in WorkingRoutes :
          /\ heap[id].path = "/b" /\ heap[id].deprecated = "True"
          /\ parent_at_call[Position(id)].path = "/a"
          /\ heap[id].methods = parent_at_call[Position(id)].methods

\* -------------------------------------------------------------------- C6
\* A route marked by the decorator that no existed instruction of the ledger names.
NeverRestored(position) ==
    /\ IsDeleted(parent_at_call[position])
    /\ \A vk \in LedgerOn(position) : KindAt(vk) # "existed"

\* C6 as stated: a derivation cannot succeed while a route marked by the
\* decorator or by a didn't-exist instruction is still marked at the end.
C6_EveryDeletionRestored ==
    pc = "done" => \A id \in WorkingRoutes : ~ IsDeleted(heap[id])

\* C6 amended: when the ledger is exhausted and some route marked by the
\* only_exists_in_older_versions decorator is named by no existed instruction,
\* the never-restored error is raised; a route marked by a didn't-exist
\* instruction need not be restored.
C6_DecoratorDeletionRestored ==
    [][ ( /\ Return
          /\ \E position \in DOMAIN parent_at_call : NeverRestored(position) )
        => (pc' = "failed" /\ error' = "were never restored")
      ]_vars

\* C6 witness: the never-restored error for a route that the decorator marked,
\* after a ledger with instructions was replayed.
C6_Witness ==
    /\ pc = "failed"
    /\ error = "were never restored"
    /\ \E position \in DOMAIN parent_at_call : NeverRestored(position)
    /\ LedgerSize(versions) > 0

\* -------------------------------------------------------------------- C8
\* C8: no route object belongs to two router objects (the user's router, the
\* parent router, the version tables and the working copy), so a change of a
\* route of one table is never a change of a route of another.
C8_NoSharedRoutes ==
    \A a, b \in DOMAIN router_routes :
        a # b => Range(router_routes[a]) \cap Range(router_routes[b]) = {}

\* C8 witness: the same route of the latest table is in two version tables
\* with different attributes.
C8_Witness ==
    \E v1, v2 \in DOMAIN routers : \E id1 \in Range(Table(v1)) : \E id2 \in Range(Table(v2)) :
        /\ v1 < v2
        /\ Position(id1) = Position(id2)
        /\ InstructionView(heap[id1]) # InstructionView(heap[id2])

\* -------------------------------------------------------------------- C9
\* C9: once transform has returned or raised, the router it was given has the
\* route list it had at the call, and each route the attributes it had.
C9_ParentRouterUnchanged ==
    (pc \in {"done", "failed"} /\ parent_router # 0)
        => RouteValues(heap, router_routes[parent_router]) = parent_at_call

\* ------------------------------------------------------------------- C10
\* C10: after a successful derivation, a route is in the table of a version
\* exactly when the route object made for that table is not marked.
C10_TablesHoldActiveRoutes ==
    pc = "done" =>
        \A v \in DOMAIN routers : \A position \in 1..RouteCount :
            Present(position, v) <=> ~ IsDeleted(heap[ObjectOf(routers[v], position)])

\* C10 witness: a successful derivation in which a marked route was left out
\* of one table and is in another.
C10_Witness ==
    /\ pc = "done"
    /\ \E v1, v2 \in DOMAIN routers : \E position \in 1..RouteCount :
          /\ ~ Present(position, v1)
          /\ IsDeleted(heap[ObjectOf(routers[v1], position)])
          /\ Present(position, v2)

\* ------------------------------------------------------------------- C11
\* Two routes collide: the same path, a method in common and the same
\* handler function name.
Collide(a, b) ==
    /\ a.path = b.path
    /\ a.methods \cap b.methods # {}
    /\ a.endpoint.name = b.endpoint.name

\* Two active routes of a list of route values collide.
HasCollision(values) ==
    \E i, j \in DOMAIN values :
        /\ i < j
        /\ ~ IsDeleted(values[i]) /\ ~ IsDeleted(values[j])
        /\ Collide(values[i], values[j])

\* C11: when no two routes of the latest table collide, a derivation that
\* succeeds returns no table in which two routes collide.
C11_NoCollisionInTables ==
    (pc = "done" /\ ~ HasCollision([i \in DOMAIN parent_at_call |->
                                       [parent_at_call[i] EXCEPT !.tags = << >>]]))
        => \A v \in DOMAIN routers : ~ HasCollision(RouteValues(heap, Table(v)))

\* ------------------------------------------------------------------- C12
\* The callables a route holds: its handler and its dependencies.
CallablesOf(route) ==
    { route.endpoint } \cup { depends.dependency : depends \in Range(route.dependencies) }

\* The retargeting wrappers around a callable, innermost first.
RetargetLayers(callable) ==
    SelectSeq(callable.layers, LAMBDA layer : layer.wrapper = "retarget")

\* C12: a callable that is the result of retargeting is not wrapped again, so
\* no handler and no dependency of a route carries more than one retargeting
\* wrapper, however many version steps it was carried through.
C12_RetargetIdempotent ==
    \A id \in DOMAIN heap : \A callable \in CallablesOf(heap[id]) :
        Len(RetargetLayers(callable)) <= 1

\* ------------------------------------------------------------------- C13
\* C13: the engine holds at most one counterpart for a value and a directory:
\* no two entries of its cache were made for the same value and directory,
\* however many routes the value was reached from.
C13_OneCounterpartPerKey ==
    \A i, j \in DOMAIN annotation_cache :
        ( /\ annotation_cache[i].annotation = annotation_cache[j].annotation
          /\ annotation_cache[i].version_dir = annotation_cache[j].version_dir )
        => i = j

\* C13 witness: two routes of one table hold the same dependency, and each
\* holds, after the table was retargeted, the one counterpart that the cache
\* has for it.
C13_Witness ==
    \E i \in DOMAIN annotation_cache : \E id1, id2 \in Range(router_routes[UserRouter + 1]) :
        /\ id1 # id2
        /\ annotation_cache[i].annotation.kind = "callable"
        /\ annotation_cache[i].annotation.name = "get_it"
        /\ annotation_cache[i].result \in CallablesOf(heap[id1])
        /\ annotation_cache[i].result \in CallablesOf(heap[id2])

\* ------------------------------------------------------------------- C14
\* The callables the engine has retargeted, each with its counterpart.
RetargetedCallables ==
    { i \in DOMAIN annotation_cache : annotation_cache[i].annotation.kind = "callable" }

\* The value the engine gives for a value and a directory.
Retargeted(annotation, version_dir) ==
    _change_version_of_annotations(annotation_cache, annotation, version_dir).value

\* C14: the signature of every counterpart of a callable has the parameters
\* of the callable, by name, in order, with their kinds; a parameter has a
\* default exactly when it had one, and the default is the retargeted value
\* of the default it had.
C14_SignaturePreserved ==
    \A i \in RetargetedCallables :
        LET old_params == annotation_cache[i].annotation.parameters
            new_params == annotation_cache[i].result.parameters
        IN  /\ Len(new_params) = Len(old_params)
            /\ \A k \in DOMAIN old_params :
                  /\ new_params[k].name = old_params[k].name
                  /\ new_params[k].kind = old_params[k].kind
                  /\ (new_params[k].default # Empty) <=> (old_params[k].default # Empty)
                  /\ old_params[k].default # Empty =>
                        new_params[k].default
                            = Retargeted(old_params[k].default, annotation_cache[i].version_dir)

\* C14 witness: a handler whose first parameter has no default and whose
\* second, keyword-only, parameter has a dependency as its default was
\* retargeted, and so was the default.
C14_Witness ==
    \E i \in RetargetedCallables :
        LET old_params == annotation_cache[i].annotation.parameters
            new_params == annotation_cache[i].result.parameters
        IN  /\ Len(old_params) = 2
            /\ old_params[1].default = Empty
            /\ old_params[2].kind = "KEYWORD_ONLY"
            /\ old_params[2].default.kind = "Depends"
            /\ new_params[2].default.kind = "Depends"
            /\ new_params[2].default # old_params[2].default

\* ------------------------------------------------------------------- C15
RECURSIVE MisplacedIn(_)
\* A schema whose source file is in the directory of a version is reachable
\* from the annotation: it is the annotation, an argument of it, or an
\* annotation or a default of the callable or of its dependencies.
MisplacedIn(annotation) ==
    CASE annotation.kind = "class" ->
            annotation.is_schema /\ annotation.dir \notin { TemplateDir, Outside }
      [] annotation.kind \in {"GenericAlias", "UnionType"} ->
            \E k \in DOMAIN annotation.args : MisplacedIn(annotation.args[k])
      [] annotation.kind = "Depends" -> MisplacedIn(annotation.dependency)
      [] annotation.kind = "callable" ->
            \/ MisplacedIn(annotation.return_annotation)
            \/ \E k \in DOMAIN annotation.parameters :
                  \/ MisplacedIn(annotation.parameters[k].annotation)
                  \/ MisplacedIn(annotation.parameters[k].default)
      [] OTHER -> FALSE

MisplacedReachable(route) ==
    \/ MisplacedIn(route.response_model)
    \/ MisplacedIn(route.endpoint)
    \/ \E k \in DOMAIN route.dependencies : MisplacedIn(route.dependencies[k])

SyncRoutes ==
    { id \in Range(router_routes[UserRouter]) : ~ is_async_callable(heap[id].endpoint) }

\* C16: generate_all_router_versions on a router with a route, marked or not,
\* whose handler is not asynchronous raises the must-be-asynchronous error;
\* so does a handler-was-different instruction whose old handler is not
\* asynchronous, when it is replayed over an active route of its identity.
C16_SyncHandlerFails ==
    [][ /\ \A latest_schemas_module \in LatestSchemasModules :
              ( /\ generate_all_router_versions(latest_schemas_module)
                /\ SyncRoutes # {} )
              => (pc' = "failed" /\ error' = "must be asynchronous")
        /\ \A instruction \in Instructions :
              ( /\ instruction.kind = "was"
                /\ ApplyInstruction(instruction)
                /\ ~ is_async_callable(instruction.old_endpoint)
                /\ ActiveMatches(instruction) # {} )
              => (pc' = "failed" /\ error' = "must be asynchronous")
      ]_vars

\* C16 witness: the error was raised for a router whose only handler that is
\* not asynchronous belongs to a route marked deleted.
C16_Witness ==
    /\ pc = "failed"
    /\ error = "must be asynchronous"
    /\ parent_router = 0
    /\ SyncRoutes # {}
    /\ \A id \in SyncRoutes : IsDeleted(heap[id])

\* The error was raised by an instruction that puts an old handler in place.
C16_WitnessWas ==
    /\ pc = "failed"
    /\ error = "must be asynchronous"
    /\ parent_router # 0

\* ------------------------------------------------------------------- C17
\* The last component of the module's dotted name is not "latest".
NotNamedLatest(latest_schemas_module) ==
    latest_schemas_module.name[Len(latest_schemas_module.name)] # "latest"

\* C17 as stated: derivation fails when no latest schema module is supplied,
\* when the module is not a package, when it is not named "latest", and when
\* the schema directory of a version of the ledger does not exist.
C17_MalformedNamespaceFails ==
    [][ /\ \A latest_schemas_module \in LatestSchemasModules :
              ( /\ generate_all_router_versions(latest_schemas_module)
                /\ IF latest_schemas_module = NoneValue THEN TRUE
                   ELSE \/ ~ latest_schemas_module.is_package
                        \/ NotNamedLatest(latest_schemas_module) )
              => pc' = "failed"
        /\ (BeginVersion(FALSE) /\ annotation_transformer) => pc' = "failed"
      ]_vars

\* C17, amended: a supplied module that is not a package, or whose dotted
\* name does not end in ".latest", makes derivation fail with the error of
\* that check; so does a missing schema directory of a version when a module
\* was supplied.  Without a module, derivation of a router with asynchronous
\* handlers goes on to the ledger, and no directory is looked for.
C17_MalformedSuppliedNamespaceFails ==
    [][ /\ \A latest_schemas_module \in LatestSchemasModules \ { NoneValue } :
              ( /\ generate_all_router_versions(latest_schemas_module)
                /\ SyncRoutes = {} )
              => /\ ~ latest_schemas_module.is_package
                      => (pc' = "failed" /\ error' = "must be a package")
                 /\ (latest_schemas_module.is_package
                        /\ ~ EndsWithDotLatest(latest_schemas_module.name))
                      => (pc' = "failed" /\ error' = "must be \"latest\"")
        /\ (generate_all_router_versions(NoneValue) /\ SyncRoutes = {})
              => (pc' = "version" /\ ~ annotation_transformer')
        /\ (BeginVersion(FALSE) /\ annotation_transformer)
              => (pc' = "failed" /\ error' = "does not exist")
        /\ (BeginVersion(FALSE) /\ ~ annotation_transformer) => pc' = "instruction"
      ]_vars

\* C17 witness: the directory of a version older than the newest was missing,
\* after the newer versions had been derived.
C17_Witness ==
    /\ pc = "failed"
    /\ error = "does not exist"
    /\ Len(versions) >= 1
    /\ annotation_transformer

\* ------------------------------------------------------------------- C18
\* The ledger names the route marked by the decorator exactly once, by an
\* existed instruction of version y.
DecoratorThenExisted(position, y) ==
    /\ IsDeleted(parent_at_call[position])
    /\ \E k \in 1..MaxLedger :
          /\ LedgerOn(position) = { << y, k >> }
          /\ KindAt(<< y, k >>) = "existed"

\* The traversal of the ledger is over: every table was recorded and filtered.
Traversed == pc = "done" \/ (pc = "failed" /\ error = "were never restored")

\* C18: no step takes a route out of the working copy, and a marked route of
\* the working copy stays marked, at the same place of the next working copy,
\* until an existed instruction that names it is replayed; an existed
\* instruction of any version that names one marked route, with its methods,
\* and no active route, makes it active; after the traversal a route that was
\* marked by the decorator or by a didn't-exist instruction of version X and
\* restored at version Y is in no table from there up to Y and in every table
\* of the versions older than Y.
C18_MarkedUntilRestored ==
    /\ [][ router # 0 =>
             /\ Len(router_routes'[router']) = Len(router_routes[router])
             /\ \A p \in DOMAIN router_routes[router] :
                   IsDeleted(heap[router_routes[router][p]]) =>
                      \/ IsDeleted(heap'[router_routes'[router'][p]])
                      \/ \E instruction \in Instructions :
                            /\ instruction.kind = "existed"
                            /\ ApplyInstruction(instruction)
                            /\ router_routes[router][p] \in DeletedMatches(instruction)
             /\ \A instruction \in Instructions : \A id \in WorkingRoutes :
                   ( /\ instruction.kind = "existed"
                     /\ ApplyInstruction(instruction)
                     /\ DeletedMatches(instruction) = { id }
                     /\ ActiveMatches(instruction) = {}
                     /\ heap[id].methods = instruction.endpoint_methods )
                   => (pc' = "instruction" /\ ~ IsDeleted(heap'[id]))
         ]_vars
    /\ [] ( Traversed =>
              \A position \in DOMAIN parent_at_call : \A y \in DOMAIN versions :
                 /\ DecoratorThenExisted(position, y) =>
                       /\ \A v \in 1..y : ~ Present(position, v)
                       /\ \A v \in (y + 1)..Len(versions) : Present(position, v)
                 /\ \A x \in DOMAIN versions :
                       ( /\ ~ IsDeleted(parent_at_call[position])
                         /\ DidntExistThenExisted(position, x, y) )
                       => /\ \A v \in (x + 1)..y : ~ Present(position, v)
                          /\ \A v \in (y + 1)..Len(versions) : Present(position, v) )

\* C18 witness: a route marked by the decorator was restored by an existed
\* instruction of the third version; it is in none of the three newer tables
\* and in the table of the fourth version.
C18_Witness ==
    /\ Traversed
    /\ Len(versions) = 4
    /\ \E position \in DOMAIN parent_at_call :
          /\ DecoratorThenExisted(position, 3)
          /\ ~ Present(position, 1) /\ ~ Present(position, 2) /\ ~ Present(position, 3)
          /\ Present(position, 4)

\* ------------------------------------------------------------------- C19
\* An existed instruction of the ledger names the route, which the decorator
\* marked, and was replayed without an error.
RestoredByLedger(position) ==
    /\ IsDeleted(parent_at_call[position])
    /\ \E vk \in LedgerOn(position) : KindAt(vk) = "existed"

\* C19: when the ledger is exhausted and every route that the decorator
\* marked was restored by an existed instruction of some version, with or
\* without a latest schema package, the never-restored error is not raised.
C19_RestoredNotReported ==
    [][ ( /\ Return
          /\ \A position \in DOMAIN parent_at_call :
                IsDeleted(parent_at_call[position]) => RestoredByLedger(position)
          /\ \A id \in WorkingRoutes : ~ IsDeleted(heap[id]) )
        => pc' = "done"
      ]_vars

\* ------------------------------------------------------------------- C20
\* The handler-was-different instructions of both specifications.
WasInstructions ==
    { instruction \in Instructions : instruction.kind = "was" } \cup TypedWasInstructions

\* C20: a handler-was-different instruction that is replayed without an error
\* puts the old handler on every active route of its identity in the working
\* copy, which becomes the tables of the older versions, and changes no route
\* of the tables recorded so far; it fails only when the methods of the active
\* routes of its identity do not add up to the methods it declares.
C20_WasReplacesHandlerOrMethodsUncovered ==
    [][ \A instruction \in WasInstructions :
            ApplyInstruction(instruction) =>
                /\ pc' = "instruction" =>
                      /\ \A id \in ActiveMatches(instruction) :
                            heap'[id].endpoint.name = instruction.old_endpoint.name
                      /\ \A v \in DOMAIN routers : \A id \in Range(Table(v)) :
                            heap'[id] = heap[id]
                /\ pc' = "failed" =>
                      AffectedMethods(instruction) # instruction.endpoint_methods
      ]_vars

\* ------------------------------------------------------------------- C21
\* Two of the routes have the same path and the same method set.
SameIdentity(ids) ==
    \E a, b \in ids :
        /\ a # b
        /\ heap[a].path = heap[b].path
        /\ heap[a].methods = heap[b].methods

\* What the instruction does to a route it is applied to.
AppliedTo(instruction, before, after) ==
    CASE instruction.kind = "didnt_exist" -> ~ IsDeleted(before) /\ IsDeleted(after)
      [] instruction.kind = "existed" -> IsDeleted(before) /\ ~ IsDeleted(after)
      [] instruction.kind = "had" -> after = Overwritten(instruction, before)
      [] instruction.kind = "was" -> after.endpoint.name = instruction.old_endpoint.name

\* Nothing but the number of routes found could stop the instruction: the
\* routes found cover its methods, no route of the other deleted state is in
\* its way, no declared attribute has its value already, and the old handler
\* is asynchronous.
Unhindered(instruction) ==
    /\ AffectedMethods(instruction) = instruction.endpoint_methods
    /\ instruction.kind = "didnt_exist" => DeletedMatches(instruction) = {}
    /\ instruction.kind = "existed" => ActiveMatches(instruction) = {}
    /\ instruction.kind = "had" =>
          \A id \in ActiveMatches(instruction) : ~ DeclaredSame(instruction, heap[id])
    /\ instruction.kind = "was" => is_async_callable(instruction.old_endpoint)

\* C21 as stated: an instruction changes no route but those of the working
\* table with its path, a method set within its methods, the deleted state it
\* requires and, when it gives one, its function name; it is applied to all of
\* them, also when it gives no function name and several of them have the
\* same path and methods.
C21_AppliedToEveryMatch ==
    [][ \A instruction \in Instructions :
            ApplyInstruction(instruction) =>
                /\ \A id \in DOMAIN heap :
                      id \notin Affected(instruction) => heap'[id] = heap[id]
                /\ Unhindered(instruction) =>
                      /\ pc' = "instruction"
                      /\ \A id \in Affected(instruction) :
                            AppliedTo(instruction, heap[id], heap'[id])
      ]_vars

\* C21 amended: as stated for the didn't-exist, attribute-changed and
\* handler-was-different instructions; an existed instruction is applied to
\* all the marked routes it resolves to unless two of them have the same path
\* and method set, and then it raises and changes no route.
C21_AppliedToEveryMatchUnlessAmbiguousRestore ==
    [][ \A instruction \in Instructions :
            ApplyInstruction(instruction) =>
                /\ \A id \in DOMAIN heap :
                      id \notin Affected(instruction) => heap'[id] = heap[id]
                /\ ( /\ Unhindered(instruction)
                     /\ ~ (instruction.kind = "existed" /\ SameIdentity(Affected(instruction))) )
                   => /\ pc' = "instruction"
                      /\ \A id \in Affected(instruction) :
                            AppliedTo(instruction, heap[id], heap'[id])
                /\ ( /\ instruction.kind = "existed"
                     /\ ActiveMatches(instruction) = {}
                     /\ SameIdentity(Affected(instruction)) )
                   => /\ pc' = "failed"
                      /\ error' = "has different applicable routes that could be restored"
                      /\ heap' = heap
      ]_vars

\* C21 witness: a didn't-exist instruction without a function name has marked
\* two routes of the same path and methods.
C21_Witness ==
    /\ pc = "instruction"
    /\ \E k \in DOMAIN versions[Len(versions)] :
          /\ versions[Len(versions)][k].kind = "didnt_exist"
          /\ versions[Len(versions)][k].endpoint_func_name = None
    /\ \E a, b \in WorkingRoutes :
          /\ a # b
          /\ SameIdentity({ a, b })
          /\ IsDeleted(heap[a]) /\ IsDeleted(heap[b])
          /\ ~ IsDeleted(parent_at_call[Position(a)])
          /\ ~ IsDeleted(parent_at_call[Position(b)])

\* ------------------------------------------------------------------- C22
\* C22: an existed instruction without a function name that resolves to two
\* marked routes of the same path and method set raises and restores nothing;
\* one that names the function of a single one of two such routes, with the
\* route's methods and no active route of its own, restores that route and
\* leaves the other marked.
C22_AmbiguousRestoreNeedsFuncName ==
    [][ \A instruction \in Instructions :
            ( instruction.kind = "existed" /\ ApplyInstruction(instruction) ) =>
                /\ ( /\ instruction.endpoint_func_name = None
                     /\ SameIdentity(DeletedMatches(instruction)) )
                   => /\ pc' = "failed"
                      /\ heap' = heap
                      /\ routes_that_never_existed' = routes_that_never_existed
                /\ \A id, other \in WorkingRoutes :
                      ( /\ instruction.endpoint_func_name # None
                        /\ DeletedMatches(instruction) = { id }
                        /\ ActiveMatches(instruction) = {}
                        /\ heap[id].methods = instruction.endpoint_methods
                        /\ other # id
                        /\ IsDeleted(heap[other])
                        /\ SameIdentity({ id, other }) )
                      => /\ pc' = "instruction"
                         /\ ~ IsDeleted(heap'[id])
                         /\ IsDeleted(heap'[other])
      ]_vars

\* C22 witness: of two marked routes of the same path and methods, the one
\* whose function the existed instruction names was restored.
C22_Witness ==
    /\ pc = "instruction"
    /\ \E k \in DOMAIN versions[Len(versions)] :
          /\ versions[Len(versions)][k].kind = "existed"
          /\ versions[Len(versions)][k].endpoint_func_name = "g"
    /\ \E id, other \in WorkingRoutes :
          /\ id # other
          /\ SameIdentity({ id, other })
          /\ heap[id].endpoint.name = "g"
          /\ ~ IsDeleted(heap[id])
          /\ IsDeleted(heap[other])
          /\ IsDeleted(parent_at_call[Position(id)])

\* The ambiguity error was raised for an instruction without a function name.
C22_WitnessAmbiguous ==
    /\ pc = "failed"
    /\ error = "has different applicable routes that could be restored"

\* ------------------------------------------------------------------- C23
\* The two instructions name the same endpoint.
SameEndpoint(a, b) ==
    /\ a.endpoint_path = b.endpoint_path
    /\ a.endpoint_methods = b.endpoint_methods
    /\ a.endpoint_func_name = b.endpoint_func_name

\* The instruction replayed last in the version that is being replayed
\* (NoneValue: none yet).
PreviousInstruction ==
    IF versions[Len(versions)] = << >> THEN NoneValue
    ELSE versions[Len(versions)][Len(versions[Len(versions)])]

\* C23: an existed instruction that follows, in the same version, a
\* didn't-exist instruction for the same endpoint finds the routes that one has
\* marked and restores them (unless two of them have the same path and
\* methods); an existed instruction that comes first in its version was
\* replayed without an error only if every route of its identity was marked
\* in the table the newer versions had left, so that it fails for a route that
\* the didn't-exist instruction after it was to mark.
C23_ReplayedInOrderOnEvolvingTable ==
    /\ [][ \A instruction \in Instructions :
              ( /\ instruction.kind = "existed"
                /\ ApplyInstruction(instruction)
                /\ PreviousInstruction.kind = "didnt_exist"
                /\ SameEndpoint(PreviousInstruction, instruction)
                /\ ~ SameIdentity(DeletedMatches(instruction)) )
              => /\ pc' = "instruction"
                 /\ DeletedMatches(instruction) # {}
                 /\ \A id \in DeletedMatches(instruction) : ~ IsDeleted(heap'[id])
         ]_vars
    /\ [] ( \A v \in DOMAIN versions :
              ( /\ versions[v] # << >>
                /\ versions[v][1].kind = "existed" )
              => \A id \in Range(Table(v)) :
                    Matches(versions[v][1], heap[id]) => IsDeleted(heap[id]) )

\* C23 witness: a didn't-exist and then an existed instruction for the same
\* endpoint were replayed in one version; the route is active in the table of
\* the version and in the working copy.
C23_Witness ==
    /\ pc = "instruction"
    /\ Len(versions[Len(versions)]) = 2
    /\ versions[Len(versions)][1].kind = "didnt_exist"
    /\ versions[Len(versions)][2].kind = "existed"
    /\ SameEndpoint(versions[Len(versions)][1], versions[Len(versions)][2])
    /\ \E id \in WorkingRoutes :
          /\ Matches(versions[Len(versions)][2], heap[id])
          /\ ~ IsDeleted(heap[id])

\* The reverse order: the existed instruction failed on the active route.
C23_WitnessReverse ==
    /\ pc = "failed"
    /\ error = "already existed in a newer version"
    /\ versions[Len(versions)] = << >>

\* ------------------------------------------------------------------- C24
\* How many times the route carries the marker.
MarkerCount(route) ==
    Cardinality({ i \in DOMAIN route.tags : route.tags[i] = _DELETED_ROUTE_TAG })

\* The route the decorator finds for the function (0: none).
DecoratedRoute(func) ==
    LET index == _get_index_and_route_from_func(heap, router_routes[UserRouter], Function(func))
    IN  IF index = 0 THEN 0 ELSE router_routes[UserRouter][index]

\* C24: no route object ever carries the marker twice; the decorator raises
\* on a marked route and leaves it as it is, a didn't-exist instruction adds
\* the marker to unmarked routes only, and the routes an existed instruction
\* has restored carry no marker.
C24_MarkedAtMostOnce ==
    /\ [] ( \A id \in DOMAIN heap : MarkerCount(heap[id]) <= 1 )
    /\ [][ /\ \A func \in {"f", "g", "h"} :
                 ( /\ only_exists_in_older_versions(func)
                   /\ DecoratedRoute(func) # 0
                   /\ IsDeleted(heap[DecoratedRoute(func)]) )
                 => /\ pc' = "failed"
                    /\ error' = "was already deleted"
                    /\ heap' = heap
           /\ \A instruction \in Instructions :
                 ApplyInstruction(instruction) =>
                    /\ instruction.kind = "didnt_exist" =>
                          \A id \in DOMAIN heap :
                             MarkerCount(heap'[id]) > MarkerCount(heap[id])
                                => MarkerCount(heap[id]) = 0
                    /\ (instruction.kind = "existed" /\ pc' = "instruction") =>
                          \A id \in DeletedMatches(instruction) : MarkerCount(heap'[id]) = 0
         ]_vars

\* C24 witness: a route that the decorator marked was restored by an existed
\* instruction and marked again by a didn't-exist instruction of an older
\* version; it carries the marker once.
C24_Witness ==
    \E id \in DOMAIN heap : \E v1, v2 \in DOMAIN versions :
        /\ router # 0
        /\ id \in WorkingRoutes
        /\ v1 < v2
        /\ IsDeleted(parent_at_call[Position(id)])
        /\ \E k \in DOMAIN versions[v1] :
              /\ versions[v1][k].kind = "existed"
              /\ Matches(versions[v1][k], heap[id])
        /\ \E k \in DOMAIN versions[v2] :
              /\ versions[v2][k].kind = "didnt_exist"
              /\ Matches(versions[v2][k], heap[id])
        /\ MarkerCount(heap[id]) = 1

\* ------------------------------------------------------------------- C25
\* The instruction names no route it could be applied to: no active route for
\* a didn't-exist, had or was instruction, no marked route for an existed one.
Inapplicable(instruction) ==
    IF instruction.kind = "existed"
    THEN DeletedMatches(instruction) = {}
    ELSE ActiveMatches(instruction) = {}

\* An existed instruction of the version read last names the route, which the
\* decorator marked, and was replayed without an error.
RestoredByOldest(position) ==
    /\ IsDeleted(parent_at_call[position])
    /\ \E vk \in LedgerOn(position) :
          /\ vk[1] = Len(versions)
          /\ KindAt(vk) = "existed"

\* C25: the version after which the ledger is exhausted is any version of the
\* traversal.  Its instructions change no route and no list of the tables
\* recorded so far, which are the tables returned; an instruction there that
\* names no route fails the derivation, which returns nothing afterwards; and
\* when the existed instructions of that version name every route the
\* decorator marked, the never-restored error is not raised.
C25_OldestValidatedOnDiscardedCopy ==
    [][ /\ \A instruction \in Instructions :
              ApplyInstruction(instruction) =>
                 /\ \A v \in DOMAIN routers :
                       /\ routers'[v] = routers[v]
                       /\ router_routes'[routers[v]] = router_routes[routers[v]]
                       /\ \A id \in Range(Table(v)) : heap'[id] = heap[id]
                 /\ Inapplicable(instruction) => pc' = "failed"
        /\ pc = "failed" => pc' = "failed"
        /\ ( /\ Return
             /\ \A position \in DOMAIN parent_at_call :
                   IsDeleted(parent_at_call[position]) => RestoredByOldest(position) )
           => pc' = "done"
      ]_vars

====
